---- MODULE Spec2Model ----
(***************************************************************************)
(* The verification state machine of the bot: VerificationCog              *)
(* (src/cogs/verification.py) driven by the discord.py event loop, with    *)
(* the member-join handler of VerificationBot (src/cogs/database.py).      *)
(*                                                                         *)
(* Every handler is a coroutine on one cooperative event loop: it runs     *)
(* without preemption from one real suspension (a network await or an      *)
(* asyncio.sleep) to the next.  An action of this module is one such run.  *)
(* A coroutine that is suspended is an element of the bag `tasks`.         *)
(* Time is the variable `now` (seconds); a sleeping task may resume at any *)
(* instant at or after its wake-up time.                                   *)
(***************************************************************************)
EXTENDS Integers, Sequences, FiniteSets, Bags, TLC

VARIABLES
    now,                    \* time.time() / datetime.utcnow()
    last_cmd,               \* per user: instant of the last !verify (cooldown bucket)
    pending_verifications,  \* self.pending_verifications: user id -> session
    rate_limits,            \* self.rate_limits: user id -> list of attempt times
    verified,               \* Database: the users' verified flag
    attempt_log,            \* Database: the verification-attempt table
    member,                 \* Discord: member[u] = guilds the user is in
    held,                   \* Discord: held[u] = role ids the user holds
    tasks,                  \* suspended coroutines (a bag of task records)
    prompts,                \* per user: the prompts built, and how each was delivered
    grant_calls,            \* member.add_roles calls issued: <<user, role id>>
    role_log,               \* logger lines of assign_verification_roles
    invites,                \* per user: the invitations created for the target server
    events,                 \* commands and events taken so far (the model's budget)
    processing_commands,    \* Bot.processing_commands: ids of the messages being handled
    handled,                \* per message id: runs of the library's process_commands
    propagated,             \* exceptions that left Bot.process_commands
    calls,                  \* RateLimiter.calls of one API client
    acquired,               \* the instants at which acquire() calls returned
    local_cache,            \* CacheManager.local_cache: key -> <<data, timestamp>>
    ttl_given,              \* per key: the ttl the last set() for it was called with
    stats,                  \* NSFWGameCog.stats
    api_failures            \* API queries that ended in an exception (logged errors)

\* the program and its surroundings
pvars == <<now, last_cmd, pending_verifications, rate_limits, verified, attempt_log,
           member, held, tasks, prompts, grant_calls, role_log, invites>>

\* the bot's command dispatch and the game cog
gvars == <<processing_commands, handled, propagated, calls, acquired,
           local_cache, ttl_given, stats, api_failures>>

vars == <<pvars, events, gvars>>

-----------------------------------------------------------------------------
(* Bounds of the model *)

MaxTime == 330
MaxEvents == 3
SessionMaxTime == 900
SessionMaxEvents == 4

BoundaryMaxTime == 600
BoundaryMaxEvents == 3
WindowMaxTime == 990
WindowMaxEvents == 5
ScreenMaxTime == 60
ScreenMaxEvents == 2
PropagationMaxEvents == 4
WriteFailMaxTime == 300
WriteFailMaxEvents == 4
BurstMaxTime == 180
BurstMaxEvents == 5
RejectMaxTime == 120
RejectMaxEvents == 4
CommandsMaxEvents == 4
LimiterMaxTime == 120
LimiterMaxEvents == 5
SearchMaxTime == 3600
SearchMaxEvents == 3
TickSteps == {330}
SessionTickSteps == {300}
LimiterTickSteps == {10, 50}
Origins == {1}

Users == {1}
Messages == {1, 2}
Queries == {"q1", "q2"}

-----------------------------------------------------------------------------
(* Program constants: VerificationCog.__init__ and the decorators *)

max_attempts_per_hour == 3
verification_timeout == 300
cooldown_period == 3600
min_account_age_days == 7
\* RateLimiter: the window of one minute, and the calls a client allows in it
\* (30, 60, 100 or 120 in the program; the model's client allows two)
LimiterWindow == 60
calls_per_minute == 2
\* CacheManager.cache_ttl, the ttl _search_with_fallback stores its results
\* with, and the limit of a search (10 or 20 in the program; one in the model)
cache_ttl == 3600
SearchTtl == 1800
SearchLimit == 1
CommandCooldown == 30
DeleteDelay == 10
FallbackDeleteDelay == 60

\* self.verification_attempts is created empty and never written
verification_attempts == [u \in {} |-> 0]

-----------------------------------------------------------------------------
(* The guilds the bot serves.  bot.guilds is iterated in GuildOrder. *)

GuildOrder == <<1, 2, 3>>
Guilds == {GuildOrder[i] : i \in 1..Len(GuildOrder)}

\* self.target_server_id, as an index into the guilds above
target_server_id == 3

\* Database.get_server_settings(guild_id): the stored settings of a guild.
\* verification_role_id 0 stands for "not set" (settings.get(...) is None), and
\* so does verification_timeout_minutes 0.
get_server_settings(g) ==
    CASE g = 1 -> [verification_role_id |-> 11, auto_role_enabled |-> TRUE,
                   verification_timeout_minutes |-> 10]
      [] g = 2 -> [verification_role_id |-> 21, auto_role_enabled |-> FALSE,
                   verification_timeout_minutes |-> 0]
      [] OTHER -> [verification_role_id |-> 31, auto_role_enabled |-> TRUE,
                   verification_timeout_minutes |-> 0]

\* guild.roles: the role ids that exist in a guild
GuildRoles(g) ==
    CASE g = 1 -> {11}
      [] g = 2 -> {21, 22}
      [] OTHER -> {31, 32}

\* discord.utils.get(guild.roles, name="Verified"): 0 when there is none
VerifiedNamedRole(g) ==
    CASE g = 1 -> 0
      [] g = 2 -> 22
      [] OTHER -> 32

\* guild.get_role(role_id): 0 for None
get_role(g, rid) == IF rid \in GuildRoles(g) THEN rid ELSE 0


\* Whether the bot may create an invite in some text channel of the target guild
TargetHasInviteChannel == TRUE

-----------------------------------------------------------------------------
(* Rate limiter: is_rate_limited / add_rate_limit_attempt *)

\* the list comprehension of is_rate_limited: keep the attempts younger than the period
PruneAttempts(attempts, t) ==
    SelectSeq(attempts, LAMBDA a : t - a < cooldown_period)

\* the value is_rate_limited returns, on the pruned list
is_rate_limited(attempts, t) ==
    Len(PruneAttempts(attempts, t)) >= max_attempts_per_hour

\* add_rate_limit_attempt: append time.time()
add_rate_limit_attempt(rl, u, t) ==
    [rl EXCEPT ![u] = Append(@, t)]

-----------------------------------------------------------------------------
(* Security screen: check_account_security *)

\* timedelta.days of a non-negative timedelta given in seconds
SecondsPerDay == 86400
Days(seconds) == seconds \div SecondsPerDay

\* str.lower() on the characters the model's names use
LowerChar(c) ==
    CASE c = "A" -> "a" [] c = "B" -> "b" [] c = "E" -> "e" [] c = "F" -> "f"
      [] c = "K" -> "k" [] c = "M" -> "m" [] c = "O" -> "o" [] c = "P" -> "p"
      [] c = "S" -> "s" [] c = "T" -> "t"
      [] OTHER -> c

Lower(name) == [i \in 1..Len(name) |-> LowerChar(name[i])]

\* pattern in username_lower
Contains(s, pat) ==
    \E i \in 1..(Len(s) - Len(pat) + 1) : SubSeq(s, i, i + Len(pat) - 1) = pat

suspicious_patterns ==
    { <<"b", "o", "t">>, <<"1", "2", "3", "4">>, <<"t", "e", "m", "p">>,
      <<"t", "e", "s", "t">>, <<"f", "a", "k", "e">> }

\* A screen that returns at its first failing check: the variant
\* C15_ScreenAccumulates must tell from the code's check_account_security.
check_account_security_first_only(user) ==
    IF Days(user.account_age) < min_account_age_days THEN <<"Account too new">>
    ELSE IF ~user.avatar THEN <<"No profile picture set">>
    ELSE IF \E pat \in suspicious_patterns : Contains(Lower(user.name), pat)
    THEN <<"Suspicious username pattern detected">>
    ELSE <<>>

\* A screen that consults the session table and reports any account while some
\* session is pending: the variant C16_ScreenPure must tell from the code's
\* check_account_security.
check_account_security_by_sessions(user) ==
    (IF Days(user.account_age) < min_account_age_days
     THEN <<"Account too new">> ELSE <<>>)
    \o (IF ~user.avatar THEN <<"No profile picture set">> ELSE <<>>)
    \o (IF \/ \E pat \in suspicious_patterns : Contains(Lower(user.name), pat)
           \/ DOMAIN pending_verifications # {}
        THEN <<"Suspicious username pattern detected">> ELSE <<>>)

\* A user snapshot: [account_age, avatar, name]; account_age is
\* utcnow - created_at, in seconds.
\* The issue texts stand for the messages (the day count of the first is left out).
check_account_security(user) ==
    (IF Days(user.account_age) < min_account_age_days
     THEN <<"Account too new">> ELSE <<>>)
    \o (IF ~user.avatar THEN <<"No profile picture set">> ELSE <<>>)
    \o (IF \E pat \in suspicious_patterns : Contains(Lower(user.name), pat)
        THEN <<"Suspicious username pattern detected">> ELSE <<>>)

\* The snapshots the security screen is exercised with: accounts one second
\* below and at the minimum age, with and without an avatar, with a clean name
\* and with names that hold a pattern in upper or mixed case
ScreenSnapshots ==
    [account_age : {min_account_age_days * SecondsPerDay - 1,
                    min_account_age_days * SecondsPerDay},
     avatar : BOOLEAN,
     name : { <<"a", "l", "i", "c", "e">>,
              <<"T", "e", "s", "t", "e", "r">>,
              <<"F", "A", "K", "E">> }]

\* The snapshots a !verify is issued with
Snapshots ==
    { [account_age |-> 30 * SecondsPerDay, avatar |-> TRUE,
       name |-> <<"a", "l", "i", "c", "e">>],
      [account_age |-> 3 * SecondsPerDay, avatar |-> FALSE,
       name |-> <<"T", "e", "s", "t", "e", "r">>] }

-----------------------------------------------------------------------------
(* Database (the Audit Store) *)

\* Database.is_user_verified
is_user_verified(v, u) == v[u]

\* Database.verify_user: idempotent upsert of the verified flag
db_verify_user(v, u) == [v EXCEPT ![u] = TRUE]

\* Database.log_verification_attempt, as called by log_verification_attempt
\* (lines 83-90): one row is appended.  The row's username, timestamp and ip_hash
\* are functions of the user and the clock and are read by nothing; the model
\* keeps the user, the outcome and the reason.
log_verification_attempt(log, u, success, reason) ==
    Append(log, [user_id |-> u, success |-> success, reason |-> reason])

RateLimited == <<"Rate limited">>
SecurityIssues(issues) == <<"Security issues">> \o issues
VerificationTimeout == <<"Verification timeout">>
SuccessfullyVerified == <<"Successfully verified">>
UserCancelled == <<"User cancelled verification">>
ForceVerified == <<"Force verified by">>

\* number of records of a user with a given reason
CountLog(log, u, reason) ==
    Cardinality({i \in 1..Len(log) : log[i].user_id = u /\ log[i].reason = reason})

-----------------------------------------------------------------------------
(* Suspended coroutines *)

\* pc names the await a coroutine is suspended in:
\*   v_dm        verify_user, delivering the prompt (lines 189-194); pos is the
\*               prompt's index in prompts[user]
\*   v_timer     verify_user, asleep in safe_delete_message and then in
\*               setup_verification_timeout (lines 194-197, 220)
\*   v_tosend    verify_user, in timeout_verification's user.send (line 241)
\*   v_fallback  verify_user, in the channel fallback (lines 206-209)
\*   c_invite, c_roles, c_notify   complete_verification (lines 289, 292, 318)
\*   f_roles, f_invite, f_send     force_verify (lines 520, 521, 528)
Task(pc, u, wake, pos) == [pc |-> pc, user |-> u, wake |-> wake, pos |-> pos]

Spawn(bag, t) == bag (+) SetToBag({t})
Finish(bag, t) == bag (-) SetToBag({t})

Quiescent == BagCardinality(tasks) = 0

\* del self.pending_verifications[user.id]
Remove(pv, u) == [x \in (DOMAIN pv) \ {u} |-> pv[x]]

\* self.pending_verifications[user.id] = {...}
Store(pv, u, session) ==
    [x \in (DOMAIN pv) \cup {u} |-> IF x = u THEN session ELSE pv[x]]

-----------------------------------------------------------------------------
(* Role propagation: assign_verification_roles and add_user_to_target_server *)

\* The add_roles calls assign_verification_roles can make, in program order:
\* for each guild first the configured role (line 428), then the role named
\* "Verified" (line 434).
NPos == 2 * Len(GuildOrder)
PosGuild(p) == GuildOrder[(p + 1) \div 2]
PosRole(p) ==
    IF p % 2 = 1
    THEN get_role(PosGuild(p), get_server_settings(PosGuild(p)).verification_role_id)
    ELSE VerifiedNamedRole(PosGuild(p))

\* A loop that looks up the role named "Verified" only and never the configured
\* role: the variant C9_EndToEnd must tell from the code's loop.
NeedsGrantNamedOnly(mem, hd, p) ==
    /\ p % 2 = 0
    /\ PosGuild(p) \in mem
    /\ PosRole(p) # 0
    /\ PosRole(p) \notin hd

\* A loop that calls add_roles without looking at member.roles: the variant
\* C18_PropagationIdempotent must tell from the code's loop.
NeedsGrantAlways(mem, hd, p) ==
    /\ PosGuild(p) \in mem
    /\ PosRole(p) # 0

\* the conditions under which the loop reaches the add_roles call at position p
NeedsGrant(mem, hd, p) ==
    /\ PosGuild(p) \in mem
    /\ PosRole(p) # 0
    /\ PosRole(p) \notin hd

\* the first add_roles call the loop makes from position p0 on; 0: none, the loop ends
NextGrant(mem, hd, p0) ==
    IF \E p \in p0..NPos : NeedsGrant(mem, hd, p)
    THEN CHOOSE p \in p0..NPos :
            /\ NeedsGrant(mem, hd, p)
            /\ \A q \in p0..(p - 1) : ~NeedsGrant(mem, hd, q)
    ELSE 0

\* A loop whose try block encloses the for statement, so that a raising call ends
\* the whole propagation: the variant C10_PartialFailure must tell from the code.
AfterRaiseAbort(p) == NPos + 1

\* where the loop goes on after the call at position p raised: the except clauses
\* of lines 437-440 end this guild's iteration
AfterRaise(p) == 2 * ((p + 1) \div 2) + 1

\* An admission that invites without looking the user up in the target guild:
\* the variant C26_InviteOnlyNonMember must tell from the code.
InviteNeededRegardless(mem) ==
    /\ target_server_id \in Guilds
    /\ TargetHasInviteChannel

\* the invitation invite_channel.create_invite makes (lines 378-383)
InviteMaxUses == 1
InviteMaxAge == 3600
create_invite == [max_uses |-> InviteMaxUses, max_age |-> InviteMaxAge, unique |-> TRUE]

\* add_user_to_target_server reaches create_invite (lines 357-378)
InviteNeeded(mem) ==
    /\ target_server_id \in Guilds
    /\ target_server_id \notin mem
    /\ TargetHasInviteChannel

\* complete_verification from assign_verification_roles at position p0 on, up to
\* its next suspension: an add_roles call, or the clean-up of lines 295-296 and
\* the success message
ContinueComplete(u, p0, hd, rest) ==
    LET q == NextGrant(member[u], hd, p0) IN
    IF q # 0
    THEN /\ tasks' = Spawn(rest, Task("c_roles", u, 0, q))
         /\ grant_calls' = grant_calls \cup {<<u, PosRole(q)>>}
         /\ UNCHANGED pending_verifications
    ELSE /\ tasks' = Spawn(rest, Task("c_notify", u, 0, 0))
         /\ pending_verifications' =
               IF u \in DOMAIN pending_verifications
               THEN Remove(pending_verifications, u)
               ELSE pending_verifications
         /\ UNCHANGED grant_calls

\* force_verify from assign_verification_roles at position p0 on, up to its next
\* suspension: an add_roles call, create_invite, or ctx.send
ContinueForce(u, p0, hd, rest) ==
    LET q == NextGrant(member[u], hd, p0) IN
    IF q # 0
    THEN /\ tasks' = Spawn(rest, Task("f_roles", u, 0, q))
         /\ grant_calls' = grant_calls \cup {<<u, PosRole(q)>>}
    ELSE /\ tasks' = Spawn(rest, Task(IF InviteNeeded(member[u]) THEN "f_invite" ELSE "f_send",
                                      u, 0, 0))
         /\ UNCHANGED grant_calls

-----------------------------------------------------------------------------
(* Initial state *)

\* generate_verification_token: 16 hex digits of a hash over random input; the
\* model draws the token from a small set
Tokens == {"tokA", "tokB"}

\* the guilds each user is in, and the roles each holds, when the bot starts
InitialMember == [u \in Users |-> IF u = 1 THEN {1, 2} ELSE {2}]
InitialHeld == [u \in Users |-> IF u = 1 THEN {22} ELSE {21}]

Init ==
    /\ now = 0
    /\ last_cmd = [u \in Users |-> 0 - CommandCooldown]
    /\ pending_verifications = [u \in {} |-> 0]
    /\ rate_limits = [u \in Users |-> <<>>]
    /\ verified = [u \in Users |-> FALSE]
    /\ attempt_log = <<>>
    /\ member = InitialMember
    /\ held = InitialHeld
    /\ tasks = EmptyBag
    /\ prompts = [u \in Users |-> <<>>]
    /\ grant_calls = {}
    /\ role_log = {}
    /\ invites = [u \in Users |-> <<>>]
    /\ events = 0
    /\ processing_commands = {}
    /\ handled = [m \in Messages |-> 0]
    /\ propagated = 0
    /\ calls = <<>>
    /\ acquired = <<>>
    /\ local_cache = [k \in {} |-> 0]
    /\ ttl_given = [k \in {} |-> 0]
    /\ stats = [searches |-> 0, games_found |-> 0, cache_hits |-> 0, api_errors |-> 0]
    /\ api_failures = 0

-----------------------------------------------------------------------------
(* Time *)

Tick(d) ==
    /\ now' = now + d
    /\ UNCHANGED <<last_cmd, pending_verifications, rate_limits, verified, attempt_log,
                   member, held, tasks, prompts, grant_calls, role_log, invites>>

-----------------------------------------------------------------------------
(* !verify: verify_user, from the command's dispatch to its first suspension *)

\* the session verify_user stores (lines 180-185)
NewSession(u, g, tok, t) ==
    [token |-> tok, timestamp |-> t, guild_id |-> g,
     attempts |-> (IF u \in DOMAIN verification_attempts
                   THEN verification_attempts[u] ELSE 0) + 1]

\* a prompt built at created_at; via: "sending", then "dm" (lines 189-191),
\* "channel" (lines 206-208) or "failed"
Prompt(created_at, via) == [created_at |-> created_at, via |-> via]

\* A start that counts every attempt, the rejected ones included: the variant
\* C22_RejectedStartFrame must tell from the code's verify_user.
verify_user_counting(u, g, user, tok) ==
    LET pruned == PruneAttempts(rate_limits[u], now)
        issues == check_account_security(user)
        rejected == \/ is_rate_limited(rate_limits[u], now)
                    \/ is_user_verified(verified, u)
                    \/ issues # <<>>
    IN
    /\ g \in member[u]
    /\ now - last_cmd[u] >= CommandCooldown
    /\ last_cmd' = [last_cmd EXCEPT ![u] = now]
    /\ rate_limits' = [rate_limits EXCEPT ![u] =
                          IF rejected THEN Append(pruned, now) ELSE pruned]
    /\ IF is_rate_limited(rate_limits[u], now)
       THEN /\ attempt_log' =
                  log_verification_attempt(attempt_log, u, FALSE, RateLimited)
            /\ UNCHANGED <<pending_verifications, tasks, prompts>>
       ELSE IF is_user_verified(verified, u)
       THEN UNCHANGED <<attempt_log, pending_verifications, tasks, prompts>>
       ELSE IF issues # <<>>
       THEN /\ attempt_log' =
                  log_verification_attempt(attempt_log, u, FALSE,
                                           SecurityIssues(issues))
            /\ UNCHANGED <<pending_verifications, tasks, prompts>>
       ELSE /\ pending_verifications' =
                  Store(pending_verifications, u, NewSession(u, g, tok, now))
            /\ prompts' = [prompts EXCEPT ![u] = Append(@, Prompt(now, "sending"))]
            /\ tasks' = Spawn(tasks, Task("v_dm", u, 0, Len(prompts[u]) + 1))
            /\ UNCHANGED attempt_log
    /\ UNCHANGED <<now, verified, member, held, grant_calls, role_log, invites>>

verify_user(u, g, user, tok) ==
    LET pruned == PruneAttempts(rate_limits[u], now)
        issues == check_account_security(user)
    IN
    /\ g \in member[u]
    /\ now - last_cmd[u] >= CommandCooldown
    /\ last_cmd' = [last_cmd EXCEPT ![u] = now]
    /\ rate_limits' = [rate_limits EXCEPT ![u] = pruned]
    /\ IF is_rate_limited(rate_limits[u], now)
       THEN /\ attempt_log' =
                  log_verification_attempt(attempt_log, u, FALSE, RateLimited)
            /\ UNCHANGED <<pending_verifications, tasks, prompts>>
       ELSE IF is_user_verified(verified, u)
       THEN UNCHANGED <<attempt_log, pending_verifications, tasks, prompts>>
       ELSE IF issues # <<>>
       THEN /\ attempt_log' =
                  log_verification_attempt(attempt_log, u, FALSE,
                                           SecurityIssues(issues))
            /\ UNCHANGED <<pending_verifications, tasks, prompts>>
       ELSE /\ pending_verifications' =
                  Store(pending_verifications, u, NewSession(u, g, tok, now))
            /\ prompts' = [prompts EXCEPT ![u] = Append(@, Prompt(now, "sending"))]
            /\ tasks' = Spawn(tasks, Task("v_dm", u, 0, Len(prompts[u]) + 1))
            /\ UNCHANGED attempt_log
    /\ UNCHANGED <<now, verified, member, held, grant_calls, role_log, invites>>

\* The prompt's delivery (lines 187-209) ends: delivered by direct message, the
\* handler sleeps in safe_delete_message and then in setup_verification_timeout;
\* refused (discord.Forbidden), it posts in the channel and sleeps in
\* safe_delete_message(delay=60); any other exception ends the handler in
\* handle_verification_error.
DmDelivery(t, outcome) ==
    /\ t.pc = "v_dm"
    /\ tasks' =
          CASE outcome = "ok" ->
                 Spawn(Finish(tasks, t),
                       Task("v_timer", t.user, now + DeleteDelay + verification_timeout, 0))
            [] outcome = "forbidden" ->
                 Spawn(Finish(tasks, t),
                       Task("v_fallback", t.user, now + FallbackDeleteDelay, 0))
            [] OTHER -> Finish(tasks, t)
    /\ prompts' = [prompts EXCEPT ![t.user][t.pos].via =
                      CASE outcome = "ok" -> "dm"
                        [] outcome = "forbidden" -> "channel"
                        [] OTHER -> "failed"]
    /\ UNCHANGED <<now, last_cmd, pending_verifications, rate_limits, verified,
                   attempt_log, member, held, grant_calls, role_log, invites>>

\* timeout_verification up to its user.send: lines 226-228
timeout_verification(u) ==
    /\ pending_verifications' = Remove(pending_verifications, u)
    /\ attempt_log' =
          log_verification_attempt(attempt_log, u, FALSE, VerificationTimeout)

\* asyncio.sleep(self.verification_timeout) returns (lines 220-222): a session
\* of the user is timed out; with none, verify_user goes on to line 212
setup_verification_timeout(t) ==
    /\ t.pc = "v_timer"
    /\ now >= t.wake
    /\ IF t.user \in DOMAIN pending_verifications
       THEN /\ timeout_verification(t.user)
            /\ tasks' = Spawn(Finish(tasks, t), Task("v_tosend", t.user, 0, 0))
            /\ UNCHANGED rate_limits
       ELSE /\ rate_limits' = add_rate_limit_attempt(rate_limits, t.user, now)
            /\ tasks' = Finish(tasks, t)
            /\ UNCHANGED <<pending_verifications, attempt_log>>
    /\ UNCHANGED <<now, last_cmd, verified, member, held, prompts, grant_calls,
                   role_log, invites>>

\* the timeout notice is sent or refused (lines 241-243), then line 212; any
\* other exception leaves verify_user through its except clause
TimeoutNotice(t, outcome) ==
    /\ t.pc = "v_tosend"
    /\ tasks' = Finish(tasks, t)
    /\ rate_limits' =
          IF outcome \in {"ok", "forbidden"}
          THEN add_rate_limit_attempt(rate_limits, t.user, now)
          ELSE rate_limits
    /\ UNCHANGED <<now, last_cmd, pending_verifications, verified, attempt_log,
                   member, held, prompts, grant_calls, role_log, invites>>

\* the channel fallback's safe_delete_message returns, then line 212
FallbackDone(t) ==
    /\ t.pc = "v_fallback"
    /\ now >= t.wake
    /\ tasks' = Finish(tasks, t)
    /\ rate_limits' = add_rate_limit_attempt(rate_limits, t.user, now)
    /\ UNCHANGED <<now, last_cmd, pending_verifications, verified, attempt_log,
                   member, held, prompts, grant_calls, role_log, invites>>

-----------------------------------------------------------------------------
(* Reactions: on_reaction_add, complete_verification, cancel_verification *)

\* A completion whose timing check is >= instead of >: the variant
\* C11_LateAcceptExpires must tell from the code's complete_verification.
complete_verification_at_limit(u, verification_data, db_ok) ==
    IF now - verification_data.timestamp >= verification_timeout
    THEN /\ timeout_verification(u)
         /\ UNCHANGED <<now, last_cmd, rate_limits, verified, member, held, tasks,
                        prompts, grant_calls, role_log, invites>>
    ELSE IF ~db_ok
    THEN UNCHANGED pvars
    ELSE /\ verified' = db_verify_user(verified, u)
         /\ attempt_log' =
               log_verification_attempt(attempt_log, u, TRUE, SuccessfullyVerified)
         /\ IF InviteNeeded(member[u])
            THEN /\ tasks' = Spawn(tasks, Task("c_invite", u, 0, 0))
                 /\ UNCHANGED <<pending_verifications, grant_calls>>
            ELSE ContinueComplete(u, 1, held[u], tasks)
         /\ UNCHANGED <<now, last_cmd, rate_limits, member, held, prompts, role_log,
                        invites>>

\* A completion that discards the session when the record write raises: the
\* variant C30_FailedWriteAbandons must tell from the code's complete_verification.
complete_verification_dropping(u, verification_data, db_ok) ==
    IF now - verification_data.timestamp > verification_timeout
    THEN /\ timeout_verification(u)
         /\ UNCHANGED <<now, last_cmd, rate_limits, verified, member, held, tasks,
                        prompts, grant_calls, role_log, invites>>
    ELSE IF ~db_ok
    THEN /\ pending_verifications' = Remove(pending_verifications, u)
         /\ UNCHANGED <<now, last_cmd, rate_limits, verified, attempt_log, member, held,
                        tasks, prompts, grant_calls, role_log, invites>>
    ELSE /\ verified' = db_verify_user(verified, u)
         /\ attempt_log' =
               log_verification_attempt(attempt_log, u, TRUE, SuccessfullyVerified)
         /\ IF InviteNeeded(member[u])
            THEN /\ tasks' = Spawn(tasks, Task("c_invite", u, 0, 0))
                 /\ UNCHANGED <<pending_verifications, grant_calls>>
            ELSE ContinueComplete(u, 1, held[u], tasks)
         /\ UNCHANGED <<now, last_cmd, rate_limits, member, held, prompts, role_log,
                        invites>>

\* complete_verification from its entry to its first suspension.  db_ok: whether
\* Database.verify_user returns; when it raises, the except clause of line 323
\* ends the handler.
complete_verification(u, verification_data, db_ok) ==
    IF now - verification_data.timestamp > verification_timeout
    THEN /\ timeout_verification(u)
         /\ UNCHANGED <<now, last_cmd, rate_limits, verified, member, held, tasks,
                        prompts, grant_calls, role_log, invites>>
    ELSE IF ~db_ok
    THEN UNCHANGED pvars
    ELSE /\ verified' = db_verify_user(verified, u)
         /\ attempt_log' =
               log_verification_attempt(attempt_log, u, TRUE, SuccessfullyVerified)
         /\ IF InviteNeeded(member[u])
            THEN /\ tasks' = Spawn(tasks, Task("c_invite", u, 0, 0))
                 /\ UNCHANGED <<pending_verifications, grant_calls>>
            ELSE ContinueComplete(u, 1, held[u], tasks)
         /\ UNCHANGED <<now, last_cmd, rate_limits, member, held, prompts, role_log,
                        invites>>

\* A cancellation that also withdraws the Verification Record: the variant
\* C6_VerifiedMonotonic must tell from the code's cancel_verification.
cancel_verification_revoking(u) ==
    /\ pending_verifications' =
          IF u \in DOMAIN pending_verifications
          THEN Remove(pending_verifications, u)
          ELSE pending_verifications
    /\ attempt_log' =
          log_verification_attempt(attempt_log, u, FALSE, UserCancelled)
    /\ verified' = [verified EXCEPT ![u] = FALSE]
    /\ UNCHANGED <<now, last_cmd, rate_limits, member, held, tasks, prompts,
                   grant_calls, role_log, invites>>

\* A cancellation that logs and leaves the session stored: the variant
\* C20_CancelDeletesSession must tell from the code's cancel_verification.
cancel_verification_keeping(u) ==
    /\ attempt_log' =
          log_verification_attempt(attempt_log, u, FALSE, UserCancelled)
    /\ UNCHANGED <<now, last_cmd, pending_verifications, rate_limits, verified, member,
                   held, tasks, prompts, grant_calls, role_log, invites>>

\* cancel_verification: lines 330-333, then the notice
cancel_verification(u) ==
    /\ pending_verifications' =
          IF u \in DOMAIN pending_verifications
          THEN Remove(pending_verifications, u)
          ELSE pending_verifications
    /\ attempt_log' =
          log_verification_attempt(attempt_log, u, FALSE, UserCancelled)
    /\ UNCHANGED <<now, last_cmd, rate_limits, verified, member, held, tasks, prompts,
                   grant_calls, role_log, invites>>

\* on_reaction_add: a reaction of user u.  on_prompt: the message reacted to
\* carries an embed titled "Enhanced Age Verification Required".
Emojis == {"accept", "decline", "other"}

on_reaction_add(u, emoji, on_prompt, db_ok) ==
    IF u \notin DOMAIN pending_verifications
    THEN UNCHANGED pvars
    ELSE IF ~on_prompt
    THEN UNCHANGED pvars
    ELSE IF emoji = "accept"
    THEN complete_verification(u, pending_verifications[u], db_ok)
    ELSE IF emoji = "decline"
    THEN cancel_verification(u)
    ELSE UNCHANGED pvars

\* create_invite returns or raises (lines 378-407); the invitation is sent, and
\* the handler goes on: complete_verification to assign_verification_roles,
\* force_verify to ctx.send
InviteDone(t, outcome) ==
    /\ t.pc \in {"c_invite", "f_invite"}
    /\ invites' = IF outcome = "ok"
                   THEN [invites EXCEPT ![t.user] = Append(@, create_invite)]
                   ELSE invites
    /\ IF t.pc = "c_invite"
       THEN ContinueComplete(t.user, 1, held[t.user], Finish(tasks, t))
       ELSE /\ tasks' = Spawn(Finish(tasks, t), Task("f_send", t.user, 0, 0))
            /\ UNCHANGED <<pending_verifications, grant_calls>>
    /\ UNCHANGED <<now, last_cmd, rate_limits, verified, attempt_log, member, held,
                   prompts, role_log>>

\* A propagation whose raising add_roles call unwinds into its caller and ends
\* the handler there: the variant C25_PropagationContained must tell from the code.
GrantDoneUnwinding(t, outcome) ==
    LET u == t.user
        r == PosRole(t.pos)
        hd == IF outcome = "ok" THEN held[u] \cup {r} ELSE held[u]
    IN
    /\ t.pc \in {"c_roles", "f_roles"}
    /\ held' = [held EXCEPT ![u] = hd]
    /\ role_log' = role_log \cup
          {[user_id |-> u, guild |-> PosGuild(t.pos), role |-> r, ok |-> (outcome = "ok")]}
    /\ IF outcome # "ok"
       THEN /\ tasks' = Finish(tasks, t)
            /\ UNCHANGED <<pending_verifications, grant_calls>>
       ELSE IF t.pc = "c_roles"
       THEN ContinueComplete(u, t.pos + 1, hd, Finish(tasks, t))
       ELSE /\ ContinueForce(u, t.pos + 1, hd, Finish(tasks, t))
            /\ UNCHANGED pending_verifications
    /\ UNCHANGED <<now, last_cmd, rate_limits, verified, attempt_log, member, prompts,
                   invites>>

\* member.add_roles returns or raises (lines 428-440), and the loop of
\* assign_verification_roles goes on
GrantDone(t, outcome) ==
    LET u == t.user
        r == PosRole(t.pos)
        hd == IF outcome = "ok" THEN held[u] \cup {r} ELSE held[u]
        p0 == IF outcome = "ok" THEN t.pos + 1 ELSE AfterRaise(t.pos)
    IN
    /\ t.pc \in {"c_roles", "f_roles"}
    /\ held' = [held EXCEPT ![u] = hd]
    /\ role_log' = role_log \cup
          {[user_id |-> u, guild |-> PosGuild(t.pos), role |-> r, ok |-> (outcome = "ok")]}
    /\ IF t.pc = "c_roles"
       THEN ContinueComplete(u, p0, hd, Finish(tasks, t))
       ELSE /\ ContinueForce(u, p0, hd, Finish(tasks, t))
            /\ UNCHANGED pending_verifications
    /\ UNCHANGED <<now, last_cmd, rate_limits, verified, attempt_log, member, prompts,
                   invites>>

\* the success message of complete_verification is delivered or not (lines 317-321)
NotifyDone(t) ==
    /\ t.pc = "c_notify"
    /\ tasks' = Finish(tasks, t)
    /\ UNCHANGED <<now, last_cmd, pending_verifications, rate_limits, verified,
                   attempt_log, member, held, prompts, grant_calls, role_log, invites>>

-----------------------------------------------------------------------------
(* !force_verify *)

\* A force_verify that also discards the user's pending session: the variant
\* C19_ForceVerifyBypasses must tell from the code's force_verify.
force_verify_clearing(u, g, db_ok) ==
    /\ g \in member[u]
    /\ IF ~db_ok
       THEN UNCHANGED <<verified, tasks, grant_calls, pending_verifications>>
       ELSE /\ verified' = db_verify_user(verified, u)
            /\ ContinueForce(u, 1, held[u], tasks)
            /\ pending_verifications' =
                  IF u \in DOMAIN pending_verifications
                  THEN Remove(pending_verifications, u)
                  ELSE pending_verifications
    /\ UNCHANGED <<now, last_cmd, rate_limits, attempt_log,
                   member, held, prompts, role_log, invites>>

\* force_verify from its entry to its first suspension (lines 518-521)
force_verify(u, g, db_ok) ==
    /\ g \in member[u]
    /\ IF ~db_ok
       THEN UNCHANGED <<verified, tasks, grant_calls>>
       ELSE /\ verified' = db_verify_user(verified, u)
            /\ ContinueForce(u, 1, held[u], tasks)
    /\ UNCHANGED <<now, last_cmd, pending_verifications, rate_limits, attempt_log,
                   member, held, prompts, role_log, invites>>

\* ctx.send of line 528 returns, and line 530 logs; when it raises, the except
\* clause of line 532 ends the handler
ForceSend(t, outcome) ==
    /\ t.pc = "f_send"
    /\ tasks' = Finish(tasks, t)
    /\ attempt_log' =
          IF outcome = "ok"
          THEN log_verification_attempt(attempt_log, t.user, TRUE, ForceVerified)
          ELSE attempt_log
    /\ UNCHANGED <<now, last_cmd, pending_verifications, rate_limits, verified,
                   member, held, prompts, grant_calls, role_log, invites>>

-----------------------------------------------------------------------------
(* VerificationBot.on_member_join *)

\* A join handler that grants the configured role without asking
\* is_user_verified: the variant C5_GrantOnlyWhenVerified must tell from the code.
on_member_join_unchecked(u, g, outcome) ==
    LET settings == get_server_settings(g)
        role == get_role(g, settings.verification_role_id)
        grants == /\ settings.auto_role_enabled
                  /\ settings.verification_role_id # 0
                  /\ role # 0
    IN
    /\ g \notin member[u]
    /\ member' = [member EXCEPT ![u] = @ \cup {g}]
    /\ grant_calls' = IF grants THEN grant_calls \cup {<<u, role>>} ELSE grant_calls
    /\ held' = IF grants /\ outcome = "ok" THEN [held EXCEPT ![u] = @ \cup {role}] ELSE held
    /\ UNCHANGED <<now, last_cmd, pending_verifications, rate_limits, verified,
                   attempt_log, tasks, prompts, role_log, invites>>

\* the user joins guild g; a verified user is given the guild's configured role
\* when auto_role_enabled is set (lines 122-132)
on_member_join(u, g, outcome) ==
    LET settings == get_server_settings(g)
        role == get_role(g, settings.verification_role_id)
        grants == /\ is_user_verified(verified, u)
                  /\ settings.auto_role_enabled
                  /\ settings.verification_role_id # 0
                  /\ role # 0
    IN
    /\ g \notin member[u]
    /\ member' = [member EXCEPT ![u] = @ \cup {g}]
    /\ grant_calls' = IF grants THEN grant_calls \cup {<<u, role>>} ELSE grant_calls
    /\ held' = IF grants /\ outcome = "ok" THEN [held EXCEPT ![u] = @ \cup {role}] ELSE held
    /\ UNCHANGED <<now, last_cmd, pending_verifications, rate_limits, verified,
                   attempt_log, tasks, prompts, role_log, invites>>

-----------------------------------------------------------------------------
(* The system *)

Outcomes == {"ok", "forbidden", "error"}
TaskSet == BagToSet(tasks)

\* An event of the environment counts against the budget when it changes
\* the state; an event the handlers ignore does not.
Counted ==
    /\ events' = IF pvars' = pvars THEN events ELSE events + 1
    /\ UNCHANGED gvars

\* Time passes, a user issues !verify, a user reacts: within the instants time
\* may advance by and up to, the number of events, the guilds a command is
\* issued in.
UserEvents(steps, max_time, max_events, origins) ==
    \/ \E d \in steps : now + d <= max_time /\ Tick(d) /\ UNCHANGED <<events, gvars>>
    \/ \E u \in Users, g \in origins, user \in Snapshots, tok \in Tokens :
          events < max_events /\ verify_user(u, g, user, tok) /\ Counted
    \/ \E u \in Users, e \in Emojis, on_prompt \in BOOLEAN, db_ok \in BOOLEAN :
          events < max_events /\ on_reaction_add(u, e, on_prompt, db_ok) /\ Counted

\* A suspended coroutine of verify_user or complete_verification resumes
Resume ==
    \/ \E t \in TaskSet, o \in Outcomes : DmDelivery(t, o) /\ UNCHANGED <<events, gvars>>
    \/ \E t \in TaskSet : setup_verification_timeout(t) /\ UNCHANGED <<events, gvars>>
    \/ \E t \in TaskSet, o \in Outcomes : TimeoutNotice(t, o) /\ UNCHANGED <<events, gvars>>
    \/ \E t \in TaskSet : FallbackDone(t) /\ UNCHANGED <<events, gvars>>
    \/ \E t \in TaskSet, o \in {"ok", "error"} : InviteDone(t, o) /\ UNCHANGED <<events, gvars>>
    \/ \E t \in TaskSet, o \in {"ok", "error"} : GrantDone(t, o) /\ UNCHANGED <<events, gvars>>
    \/ \E t \in TaskSet : NotifyDone(t) /\ UNCHANGED <<events, gvars>>

\* An administrator issues !force_verify, its coroutine resumes, a user joins a guild
AdminEvents(max_events, origins) ==
    \/ \E u \in Users, g \in origins, db_ok \in BOOLEAN :
          events < max_events /\ force_verify(u, g, db_ok) /\ Counted
    \/ \E t \in TaskSet, o \in {"ok", "error"} : ForceSend(t, o) /\ UNCHANGED <<events, gvars>>
    \/ \E u \in Users, g \in Guilds, o \in {"ok", "error"} :
          events < max_events /\ on_member_join(u, g, o) /\ Counted

\* The whole system, on a coarse clock
Next ==
    \/ UserEvents(TickSteps, MaxTime, MaxEvents, Origins)
    \/ Resume
    \/ AdminEvents(MaxEvents, Origins)

Spec == Init /\ [][Next]_vars

\* The verification sessions alone (no administrator, no joins), on a finer clock
NextSession ==
    \/ UserEvents(SessionTickSteps, SessionMaxTime, SessionMaxEvents, Origins)
    \/ Resume

SpecSession == Init /\ [][NextSession]_vars

\* The verification sessions on the clock of the timeout's boundary: the
\* instants 0, verification_timeout, 2 * verification_timeout
NextBoundary ==
    \/ UserEvents({verification_timeout}, BoundaryMaxTime, BoundaryMaxEvents, Origins)
    \/ Resume

SpecBoundary == Init /\ [][NextBoundary]_vars

\* the snapshot that passes the security screen
CleanSnapshot == CHOOSE user \in Snapshots : check_account_security(user) = <<>>

\* One user's rate-limit window filling up: starts of a clean account, each
\* handler running to its end without an error, and the user, not verified yet,
\* verified by an administrator
NextWindow ==
    \/ \E d \in TickSteps : now + d <= WindowMaxTime /\ Tick(d) /\ UNCHANGED <<events, gvars>>
    \/ \E u \in Users, g \in Origins, tok \in {"tokA"} :
          events < WindowMaxEvents /\ verify_user(u, g, CleanSnapshot, tok) /\ Counted
    \/ \E u \in Users, g \in Origins :
          /\ events < WindowMaxEvents
          /\ ~is_user_verified(verified, u)
          /\ force_verify(u, g, TRUE) /\ Counted
    \/ \E t \in TaskSet, o \in {"ok", "forbidden"} : DmDelivery(t, o) /\ UNCHANGED <<events, gvars>>
    \/ \E t \in TaskSet : setup_verification_timeout(t) /\ UNCHANGED <<events, gvars>>
    \/ \E t \in TaskSet : TimeoutNotice(t, "ok") /\ UNCHANGED <<events, gvars>>
    \/ \E t \in TaskSet : FallbackDone(t) /\ UNCHANGED <<events, gvars>>
    \/ \E t \in TaskSet : InviteDone(t, "ok") /\ UNCHANGED <<events, gvars>>
    \/ \E t \in TaskSet : GrantDone(t, "ok") /\ UNCHANGED <<events, gvars>>
    \/ \E t \in TaskSet : ForceSend(t, "ok") /\ UNCHANGED <<events, gvars>>

SpecWindow == Init /\ [][NextWindow]_vars

\* The security screen at work: starts with every snapshot of ScreenSnapshots,
\* at the instants the command cooldown allows; a prompt is posted in the
\* channel, and its handler ends and counts the attempt
NextScreen ==
    \/ /\ now + CommandCooldown <= ScreenMaxTime
       /\ Tick(CommandCooldown) /\ UNCHANGED <<events, gvars>>
    \/ \E u \in Users, g \in Origins, user \in ScreenSnapshots, tok \in Tokens :
          events < ScreenMaxEvents /\ verify_user(u, g, user, tok) /\ Counted
    \/ \E t \in TaskSet : DmDelivery(t, "forbidden") /\ UNCHANGED <<events, gvars>>
    \/ \E t \in TaskSet : FallbackDone(t) /\ UNCHANGED <<events, gvars>>

SpecScreen == Init /\ [][NextScreen]_vars

\* no prompt is being delivered and no sleeping handler is due: the event loop
\* has run every coroutine that is ready at this instant
NoneReady ==
    \A t \in TaskSet : t.pc # "v_dm" /\ now < t.wake

\* A burst of starts, one at each instant the command cooldown allows, every
\* prompt posted in the channel and its handler sleeping and then counting the
\* attempt, each coroutine resuming as soon as it is ready; and one leap of a
\* cooldown period after the burst
NextBurst ==
    \/ /\ now + CommandCooldown <= BurstMaxTime
       /\ NoneReady
       /\ Tick(CommandCooldown) /\ UNCHANGED <<events, gvars>>
    \/ /\ now <= BurstMaxTime
       /\ NoneReady
       /\ Tick(cooldown_period) /\ UNCHANGED <<events, gvars>>
    \/ \E u \in Users, g \in Origins, tok \in {"tokA"} :
          events < BurstMaxEvents /\ verify_user(u, g, CleanSnapshot, tok) /\ Counted
    \/ \E t \in TaskSet : DmDelivery(t, "forbidden") /\ UNCHANGED <<events, gvars>>
    \/ \E t \in TaskSet : FallbackDone(t) /\ UNCHANGED <<events, gvars>>

SpecBurst == Init /\ [][NextBurst]_vars

\* Starts that are rejected on each of the three grounds: starts of a clean and
\* of a suspicious account at the instants the command cooldown allows, prompts
\* posted in the channel, and the user, not verified yet, verified by an
\* administrator; each coroutine resumes as soon as it is ready
NextReject ==
    \/ /\ now + CommandCooldown <= RejectMaxTime
       /\ NoneReady
       /\ Tick(CommandCooldown) /\ UNCHANGED <<events, gvars>>
    \/ \E u \in Users, g \in Origins, user \in Snapshots, tok \in {"tokA"} :
          events < RejectMaxEvents /\ verify_user(u, g, user, tok) /\ Counted
    \/ \E u \in Users, g \in Origins :
          /\ events < RejectMaxEvents
          /\ ~is_user_verified(verified, u)
          /\ force_verify(u, g, TRUE) /\ Counted
    \/ \E t \in TaskSet : DmDelivery(t, "forbidden") /\ UNCHANGED <<events, gvars>>
    \/ \E t \in TaskSet : FallbackDone(t) /\ UNCHANGED <<events, gvars>>
    \/ \E t \in TaskSet : GrantDone(t, "ok") /\ UNCHANGED <<events, gvars>>
    \/ \E t \in TaskSet : InviteDone(t, "ok") /\ UNCHANGED <<events, gvars>>
    \/ \E t \in TaskSet : ForceSend(t, "ok") /\ UNCHANGED <<events, gvars>>

SpecReject == Init /\ [][NextReject]_vars

\* The propagation alone, at one instant: a start of a clean account and its
\* accepts, the administrator's force_verify, the user joining a guild, every
\* record write returning, and every call of the propagation returning or raising
NextPropagation ==
    \/ \E u \in Users, g \in Origins, tok \in {"tokA"} :
          events < PropagationMaxEvents /\ verify_user(u, g, CleanSnapshot, tok) /\ Counted
    \/ \E u \in Users :
          events < PropagationMaxEvents /\ on_reaction_add(u, "accept", TRUE, TRUE) /\ Counted
    \/ \E u \in Users, g \in Origins :
          events < PropagationMaxEvents /\ force_verify(u, g, TRUE) /\ Counted
    \/ \E u \in Users, g \in Guilds :
          events < PropagationMaxEvents /\ on_member_join(u, g, "ok") /\ Counted
    \/ \E t \in TaskSet : DmDelivery(t, "ok") /\ UNCHANGED <<events, gvars>>
    \/ \E t \in TaskSet, o \in {"ok", "error"} : InviteDone(t, o) /\ UNCHANGED <<events, gvars>>
    \/ \E t \in TaskSet, o \in {"ok", "error"} : GrantDone(t, o) /\ UNCHANGED <<events, gvars>>
    \/ \E t \in TaskSet : NotifyDone(t) /\ UNCHANGED <<events, gvars>>
    \/ \E t \in TaskSet : ForceSend(t, "ok") /\ UNCHANGED <<events, gvars>>

SpecPropagation == Init /\ [][NextPropagation]_vars

\* Accepts whose record write returns or raises: a start of a clean account,
\* accepts of its session, each counted whether or not it changes anything, and
\* the handlers of the accepts running to their ends without another error, up
\* to the instant the session's age reaches the timeout
NextWriteFail ==
    \/ /\ now + verification_timeout <= WriteFailMaxTime
       /\ Tick(verification_timeout) /\ UNCHANGED <<events, gvars>>
    \/ \E u \in Users, g \in Origins, tok \in {"tokA"} :
          events < WriteFailMaxEvents /\ verify_user(u, g, CleanSnapshot, tok) /\ Counted
    \/ \E u \in DOMAIN pending_verifications, db_ok \in BOOLEAN :
          /\ events < WriteFailMaxEvents
          /\ on_reaction_add(u, "accept", TRUE, db_ok)
          /\ events' = events + 1
          /\ UNCHANGED gvars
    \/ \E t \in TaskSet : DmDelivery(t, "ok") /\ UNCHANGED <<events, gvars>>
    \/ \E t \in TaskSet : InviteDone(t, "ok") /\ UNCHANGED <<events, gvars>>
    \/ \E t \in TaskSet : GrantDone(t, "ok") /\ UNCHANGED <<events, gvars>>
    \/ \E t \in TaskSet : NotifyDone(t) /\ UNCHANGED <<events, gvars>>

SpecWriteFail == Init /\ [][NextWriteFail]_vars

-----------------------------------------------------------------------------
(* Properties *)

\* the prompts of user u issued within the cooldown period before instant t
PromptsInWindow(u, t) ==
    {i \in 1..Len(prompts[u]) :
        prompts[u][i].created_at <= t /\ t - prompts[u][i].created_at < cooldown_period}

\* the session of user u was prompted through the given channel
SessionPromptedVia(u, via) ==
    \E i \in 1..Len(prompts[u]) :
        /\ prompts[u][i].created_at = pending_verifications[u].timestamp
        /\ prompts[u][i].via = via

\* C1: when the accept and the expiry timer race for the one session a user ever
\* had, the session leaves exactly one outcome record: a timer that has expired
\* the session finds no "success" record of it beside its one "timeout" record,
\* and once every handler has ended and the session is gone uncancelled, a
\* "success" or a "timeout" record exists.
C1_RaceOneOutcome ==
    \A u \in Users :
        Len(prompts[u]) = 1 =>
            /\ \A t \in TaskSet :
                  (t.pc = "v_tosend" /\ t.user = u) =>
                      /\ CountLog(attempt_log, u, VerificationTimeout) = 1
                      /\ CountLog(attempt_log, u, SuccessfullyVerified) = 0
            /\ (/\ Quiescent
                /\ u \notin DOMAIN pending_verifications
                /\ prompts[u][1].via = "dm"
                /\ CountLog(attempt_log, u, UserCancelled) = 0)
               => \/ CountLog(attempt_log, u, SuccessfullyVerified) >= 1
                  \/ CountLog(attempt_log, u, VerificationTimeout) >= 1

\* C2: while a user has a pending session, no step issues the user another
\* prompt or replaces the session's token or creation time.
C2_StartWhilePendingRejected ==
    [][\A u \in Users :
          u \in DOMAIN pending_verifications =>
              /\ Len(prompts'[u]) = Len(prompts[u])
              /\ u \in DOMAIN pending_verifications' =>
                    /\ pending_verifications'[u].token = pending_verifications[u].token
                    /\ pending_verifications'[u].timestamp =
                          pending_verifications[u].timestamp]_vars

\* C3: no more than max_attempts_per_hour starts of a user succeed within one
\* cooldown period, and a start is rejected as rate limited only when that many
\* have succeeded within the period before it.
C3_RateLimitWindow ==
    /\ [](\A u \in Users : \A i \in 1..Len(prompts[u]) :
             Cardinality(PromptsInWindow(u, prompts[u][i].created_at))
                <= max_attempts_per_hour)
    /\ [][\A u \in Users :
             CountLog(attempt_log', u, RateLimited) > CountLog(attempt_log, u, RateLimited)
                => Cardinality(PromptsInWindow(u, now)) >= max_attempts_per_hour]_vars

\* C4: once every handler has ended, no session whose prompt was delivered, by
\* direct message or in the channel, is left pending: each has been expired.
C4_DeliveredSessionExpires ==
    Quiescent =>
        \A u \in DOMAIN pending_verifications :
            /\ ~SessionPromptedVia(u, "dm")
            /\ ~SessionPromptedVia(u, "channel")

\* C5: a step that changes the roles a user holds starts in a state where the
\* user's Verification Record is true.
C5_GrantOnlyWhenVerified ==
    [][\A u \in Users : held'[u] # held[u] => is_user_verified(verified, u)]_vars

\* a role was granted to a verified user
C5_Witness ==
    \E u \in Users : held[u] # InitialHeld[u] /\ is_user_verified(verified, u)

\* C6: no step turns a user's Verification Record from true to false.
C6_VerifiedMonotonic ==
    [][\A u \in Users :
          is_user_verified(verified, u) => is_user_verified(verified', u)]_vars

\* a verified user's propagation failed in a guild and the user's session was
\* cancelled or timed out afterwards or before; the record is still true
C6_Witness ==
    \E u \in Users :
        /\ is_user_verified(verified, u)
        /\ \E e \in role_log : e.user_id = u /\ ~e.ok
        /\ \/ CountLog(attempt_log, u, UserCancelled) >= 1
           \/ CountLog(attempt_log, u, VerificationTimeout) >= 1

\* C7: for a user without a pending session, a reaction of the user and the
\* firing of an expiry timer of the user leave the Verification Record, the
\* pending sessions, the rate-limit window and the attempt log as they are.
C7_NoSessionNoOp ==
    [][\A u \in Users :
          u \notin DOMAIN pending_verifications =>
              /\ \A e \in Emojis, on_prompt \in BOOLEAN, db_ok \in BOOLEAN :
                    on_reaction_add(u, e, on_prompt, db_ok) =>
                        UNCHANGED <<verified, pending_verifications, rate_limits,
                                    attempt_log>>
              /\ \A t \in TaskSet :
                    (t.user = u /\ setup_verification_timeout(t)) =>
                        UNCHANGED <<verified, pending_verifications, rate_limits,
                                    attempt_log>>]_vars

\* C8: after a cancellation by the user, an expiry timer that removes a session
\* of the user removes one whose own age exceeds verification_timeout.
C8_TimerChecksAge ==
    [][\A t \in TaskSet :
          (/\ setup_verification_timeout(t)
           /\ CountLog(attempt_log, t.user, UserCancelled) >= 1
           /\ t.user \in DOMAIN pending_verifications
           /\ t.user \notin DOMAIN pending_verifications')
          => now - pending_verifications[t.user].timestamp > verification_timeout]_vars

\* the user's start is one that passes every check of verify_user
CleanStart(u, user) ==
    /\ ~is_user_verified(verified, u)
    /\ ~is_rate_limited(rate_limits[u], now)
    /\ check_account_security(user) = <<>>
    /\ user.account_age = 30 * SecondsPerDay

\* the user's accept finds a session within its timeout, and the record is written
TimelyAccept(u) ==
    /\ u \in DOMAIN pending_verifications
    /\ now - pending_verifications[u].timestamp <= verification_timeout

\* a grant was attempted for the user in guild g
GrantAttempted(u, g) == \E r \in GuildRoles(g) : <<u, r>> \in grant_calls

\* guild g has a role that assign_verification_roles looks up and that the user
\* did not hold at the start
MarkerMissing(u, g) ==
    \E p \in 1..NPos :
        PosGuild(p) = g /\ PosRole(p) # 0 /\ PosRole(p) \notin InitialHeld[u]

DueAfterGuild(mem, hd, p) ==
    {q \in (p + 1)..NPos :
        /\ PosGuild(q) # PosGuild(p)
        /\ PosGuild(q) \in mem
        /\ PosRole(q) # 0
        /\ PosRole(q) \notin hd}

\* C10: when an add_roles call raises, the failure is recorded for its guild, the
\* roles granted before stay granted, the Verification Record stays true, and the
\* propagation goes on with the first call due in a later guild; a call that
\* returns applies its role.
C10_PartialFailure ==
    [][\A t \in TaskSet :
          /\ GrantDone(t, "error") =>
                LET due == DueAfterGuild(member[t.user], held[t.user], t.pos) IN
                /\ [user_id |-> t.user, guild |-> PosGuild(t.pos),
                    role |-> PosRole(t.pos), ok |-> FALSE] \in role_log'
                /\ held'[t.user] = held[t.user]
                /\ is_user_verified(verified, t.user)
                /\ is_user_verified(verified', t.user)
                /\ due # {} =>
                      \E q \in due :
                          /\ \A q2 \in due : q <= q2
                          /\ Task(t.pc, t.user, 0, q) \in BagToSet(tasks')
                          /\ <<t.user, PosRole(q)>> \in grant_calls'
          /\ GrantDone(t, "ok") => PosRole(t.pos) \in held'[t.user]]_vars

\* of three guilds A, B, C of a verified user, the grant in B raised and the
\* grants in A and C were applied
C10_Witness ==
    \E u \in Users :
        /\ is_user_verified(verified, u)
        /\ \E e \in role_log : e.user_id = u /\ e.guild = GuildOrder[2] /\ ~e.ok
        /\ \E e \in role_log : e.user_id = u /\ e.guild = GuildOrder[1] /\ e.ok
        /\ \E e \in role_log : e.user_id = u /\ e.guild = GuildOrder[3] /\ e.ok
        /\ get_role(GuildOrder[1], get_server_settings(GuildOrder[1]).verification_role_id)
              \in held[u]
        /\ VerifiedNamedRole(GuildOrder[3]) \in held[u]

\* C11: an accept of a pending session older than verification_timeout deletes
\* the session and appends one "timeout" record, writes no Verification Record
\* and starts no propagation; an accept at an age up to and including
\* verification_timeout, its record write returning, confirms.
C11_LateAcceptExpires ==
    [][\A u \in Users, db_ok \in BOOLEAN :
          (u \in DOMAIN pending_verifications
             /\ on_reaction_add(u, "accept", TRUE, db_ok)) =>
              IF now - pending_verifications[u].timestamp > verification_timeout
              THEN /\ u \notin DOMAIN pending_verifications'
                   /\ attempt_log' = Append(attempt_log,
                         [user_id |-> u, success |-> FALSE, reason |-> VerificationTimeout])
                   /\ verified' = verified
                   /\ tasks' = tasks
                   /\ grant_calls' = grant_calls
                   /\ invites' = invites
              ELSE db_ok =>
                   /\ is_user_verified(verified', u)
                   /\ attempt_log' = Append(attempt_log,
                         [user_id |-> u, success |-> TRUE, reason |-> SuccessfullyVerified])]_vars

\* an accept of a session older than the timeout has taken the expiry path (no
\* timer was armed: the prompt's delivery has not returned)
C11_Witness ==
    \E u \in Users :
        /\ ~is_user_verified(verified, u)
        /\ u \notin DOMAIN pending_verifications
        /\ Len(prompts[u]) = 1 /\ prompts[u][1].via = "sending"
        /\ CountLog(attempt_log, u, VerificationTimeout) = 1

\* C12: a start by a verified user creates no session and appends no "Rate
\* limited" record, whatever the user's rate-limit window holds.
C12_VerifiedBeforeRateLimit ==
    [][\A u \in Users, g \in Guilds, user \in Snapshots, tok \in Tokens :
          (is_user_verified(verified, u) /\ verify_user(u, g, user, tok)) =>
              /\ pending_verifications' = pending_verifications
              /\ CountLog(attempt_log', u, RateLimited)
                    = CountLog(attempt_log, u, RateLimited)]_vars

\* C13: a start that is rejected (it issues no prompt) appends one attempt
\* record of the user, a failure with its reason.
C13_RejectionLogged ==
    [][\A u \in Users, g \in Guilds, user \in Snapshots, tok \in Tokens :
          (verify_user(u, g, user, tok) /\ Len(prompts'[u]) = Len(prompts[u])) =>
              /\ Len(attempt_log') = Len(attempt_log) + 1
              /\ attempt_log'[Len(attempt_log')].user_id = u
              /\ ~attempt_log'[Len(attempt_log')].success
              /\ attempt_log'[Len(attempt_log')].reason # <<>>]_vars

\* the session of user u, << >> when there is none
SessionOf(pv, u) == IF u \in DOMAIN pv THEN <<pv[u]>> ELSE << >>

\* task t stays suspended over the step
StaysSuspended(t) == CopiesIn(t, tasks') >= CopiesIn(t, tasks)

\* C14: a handler of a user suspended between its check and its write is not
\* overtaken: while complete_verification is suspended between finding the
\* session (line 253) and deleting it (line 296) no step changes the user's
\* session, and while verify_user is suspended between is_rate_limited
\* (line 100) and add_rate_limit_attempt (line 212) no step changes the user's
\* rate-limit window.
C14_Linearized ==
    [][\A t \in TaskSet :
          StaysSuspended(t) =>
              /\ t.pc \in {"c_invite", "c_roles"} =>
                    SessionOf(pending_verifications', t.user)
                       = SessionOf(pending_verifications, t.user)
              /\ t.pc \in {"v_dm", "v_timer", "v_fallback", "v_tosend"} =>
                    rate_limits'[t.user] = rate_limits[t.user]]_vars

\* the names of ScreenSnapshots that hold a denylisted pattern, whatever the case
DenylistedNames == { <<"T", "e", "s", "t", "e", "r">>, <<"F", "A", "K", "E">> }

\* the number of checks the snapshot fails
FailingChecks(user) ==
    (IF user.account_age < 7 * 24 * 3600 THEN 1 ELSE 0)
    + (IF ~user.avatar THEN 1 ELSE 0)
    + (IF user.name \in DenylistedNames THEN 1 ELSE 0)

\* the issue list has one issue for each failing check and no other
OneIssuePerFailingCheck(user, issues) ==
    LET Has(x) == \E i \in 1..Len(issues) : issues[i] = x IN
    /\ Len(issues) = FailingChecks(user)
    /\ Has("Account too new") <=> user.account_age < 7 * 24 * 3600
    /\ Has("No profile picture set") <=> ~user.avatar
    /\ Has("Suspicious username pattern detected") <=> user.name \in DenylistedNames

\* C15: the issue list of the security screen has exactly one issue for each
\* failing check (age in days below 7, no avatar, a denylisted pattern in the
\* name in any case) and is empty iff all three pass; a start that reaches the
\* screen stores a session when the list is empty and otherwise logs exactly
\* these issues.
C15_ScreenAccumulates ==
    [][\A u \in Users, g \in Guilds, user \in ScreenSnapshots, tok \in Tokens :
          (/\ ~is_user_verified(verified, u)
           /\ ~is_rate_limited(rate_limits[u], now)
           /\ verify_user(u, g, user, tok)) =>
              IF FailingChecks(user) = 0
              THEN /\ u \in DOMAIN pending_verifications'
                   /\ pending_verifications'[u].timestamp = now
                   /\ attempt_log' = attempt_log
              ELSE /\ pending_verifications' = pending_verifications
                   /\ Len(attempt_log') = Len(attempt_log) + 1
                   /\ LET reason == attempt_log'[Len(attempt_log')].reason IN
                         /\ Len(reason) >= 1
                         /\ reason[1] = "Security issues"
                         /\ OneIssuePerFailingCheck(user, Tail(reason))]_vars

\* a start was rejected with all three issues
C15_Witness ==
    \E i \in 1..Len(attempt_log) :
        attempt_log[i].reason = <<"Security issues", "Account too new",
                                  "No profile picture set",
                                  "Suspicious username pattern detected">>

C17_GrantOnlyWhereEnabled ==
    /\ \A c \in grant_calls :
          \A g \in Guilds :
              c[2] \in GuildRoles(g) => get_server_settings(g).auto_role_enabled
    /\ \A e \in role_log : get_server_settings(e.guild).auto_role_enabled

\* the user holds every role assign_verification_roles looks up in the user's guilds
AllMarkersHeld(u) ==
    \A p \in 1..NPos :
        (PosGuild(p) \in member[u] /\ PosRole(p) # 0) => PosRole(p) \in held[u]

\* C18: an add_roles call of assign_verification_roles is issued only for a role
\* the user does not hold when it is issued; and assign_verification_roles run
\* again for a user who holds every role it looks up issues no call and leaves
\* the roles held as they are.
C18_PropagationIdempotent ==
    [][/\ \A t \in BagToSet(tasks') :
             (t.pc \in {"c_roles", "f_roles"} /\ CopiesIn(t, tasks') > CopiesIn(t, tasks))
                => PosRole(t.pos) \notin held'[t.user]
       /\ \A u \in Users, g \in Origins :
             (UNCHANGED <<held, prompts, attempt_log>> /\ AllMarkersHeld(u)
                /\ force_verify(u, g, TRUE)) =>
                 /\ is_user_verified(verified', u)
                 /\ held' = held
                 /\ grant_calls' = grant_calls
                 /\ \A t \in BagToSet(tasks') :
                       t.pc = "f_roles" => CopiesIn(t, tasks') = CopiesIn(t, tasks)]_vars

\* assign_verification_roles has run again for a user who had been given every
\* role by an earlier run
C18_Witness ==
    \E u \in Users :
        /\ AllMarkersHeld(u)
        /\ held[u] # InitialHeld[u]
        /\ CountLog(attempt_log, u, ForceVerified) >= 1
        /\ \E t \in TaskSet : t.user = u /\ t.pc \in {"f_invite", "f_send"}

\* the suspension points of force_verify
ForcePcs == {"f_roles", "f_invite", "f_send"}

\* C19: a force_verify whose record write returns makes the user verified,
\* starts the propagation (an add_roles call when a role is due, else the
\* invitation or the report) and leaves the pending sessions and the rate-limit
\* windows as they are; so does every later step of its handler.
C19_ForceVerifyBypasses ==
    [][/\ \A u \in Users, g \in Origins :
             (UNCHANGED <<held, prompts, attempt_log>> /\ force_verify(u, g, TRUE)) =>
                 /\ is_user_verified(verified', u)
                 /\ UNCHANGED <<pending_verifications, rate_limits>>
                 /\ BagCardinality(tasks') = BagCardinality(tasks) + 1
                 /\ \E t \in BagToSet(tasks') :
                       /\ t.user = u /\ t.pc \in ForcePcs
                       /\ CopiesIn(t, tasks') = CopiesIn(t, tasks) + 1
                       /\ ~AllMarkersHeld(u) =>
                             /\ t.pc = "f_roles"
                             /\ <<u, PosRole(t.pos)>> \in grant_calls'
       /\ \A t \in BagToSet(tasks) :
             (t.pc \in ForcePcs /\ CopiesIn(t, tasks') < CopiesIn(t, tasks)) =>
                 UNCHANGED <<pending_verifications, rate_limits>>]_vars

\* force_verify has run to its end for a user who has a pending session
C19_Witness ==
    \E u \in Users :
        /\ is_user_verified(verified, u)
        /\ u \in DOMAIN pending_verifications
        /\ CountLog(attempt_log, u, ForceVerified) >= 1
        /\ CountLog(attempt_log, u, SuccessfullyVerified) = 0

\* C20: a decline of a pending session removes the session and appends exactly
\* one "cancelled" record, and changes neither a Verification Record nor a role
\* nor starts a handler; after a cancellation a start that passes the checks
\* stores a new session.
C20_CancelDeletesSession ==
    [][/\ \A u \in Users, db_ok \in BOOLEAN :
             (u \in DOMAIN pending_verifications
                /\ on_reaction_add(u, "decline", TRUE, db_ok)) =>
                 /\ u \notin DOMAIN pending_verifications'
                 /\ attempt_log' = Append(attempt_log,
                       [user_id |-> u, success |-> FALSE, reason |-> UserCancelled])
                 /\ UNCHANGED <<verified, held, grant_calls, tasks, invites>>
       /\ \A u \in Users, g \in Guilds, user \in Snapshots, tok \in Tokens :
             (/\ CountLog(attempt_log, u, UserCancelled) >= 1
              /\ u \notin DOMAIN pending_verifications
              /\ CleanStart(u, user)
              /\ verify_user(u, g, user, tok)) =>
                 /\ u \in DOMAIN pending_verifications'
                 /\ pending_verifications'[u].timestamp = now
                 /\ pending_verifications'[u].token = tok]_vars

\* the user has cancelled a session and started again
C20_Witness ==
    \E u \in Users :
        /\ CountLog(attempt_log, u, UserCancelled) = 1
        /\ ~is_user_verified(verified, u)
        /\ Len(prompts[u]) = 2
        /\ u \in DOMAIN pending_verifications
        /\ pending_verifications[u].timestamp = prompts[u][2].created_at

\* C21: the attempts of a user's rate-limit window that are younger than the
\* cooldown period number at most max_attempts_per_hour + 1, in every state.
C21_WindowBounded ==
    \A u \in Users :
        Len(PruneAttempts(rate_limits[u], now)) <= max_attempts_per_hour + 1

\* the attempts of the user's window whose age at instant t is at most the
\* cooldown period
WithinPeriod(attempts, t) ==
    {i \in 1..Len(attempts) : t - attempts[i] <= cooldown_period}

\* C23: a start keeps in the rate-limit window every attempt whose age is at
\* most cooldown_period, the age of exactly cooldown_period included, and is
\* rejected as rate limited when max_attempts_per_hour of them are that young.
C23_PruneKeepsBoundary ==
    [][\A u \in Users, g \in Origins, tok \in Tokens :
          verify_user(u, g, CleanSnapshot, tok) =>
              /\ \A i \in WithinPeriod(rate_limits[u], now) :
                    \E j \in 1..Len(rate_limits'[u]) :
                        rate_limits'[u][j] = rate_limits[u][i]
              /\ Cardinality(WithinPeriod(rate_limits[u], now)) >= max_attempts_per_hour
                    => CountLog(attempt_log', u, RateLimited)
                          = CountLog(attempt_log, u, RateLimited) + 1]_vars

\* the start of user u with snapshot user is one the checks of a start reject
RejectedStart(u, user) ==
    \/ is_rate_limited(rate_limits[u], now)
    \/ is_user_verified(verified, u)
    \/ check_account_security(user) # <<>>

\* C22: a start that is rejected (rate limited, already verified, or failing the
\* security screen) leaves in the rate-limit window the attempts younger than
\* the cooldown period and adds none, stores no session, starts no handler and
\* changes no Verification Record, prompt, membership, role or invitation; the
\* attempt log keeps its records and gains at most one.
C22_RejectedStartFrame ==
    [][\A u \in Users, g \in Origins, user \in Snapshots, tok \in Tokens :
          (RejectedStart(u, user) /\ verify_user(u, g, user, tok)) =>
              /\ rate_limits' =
                    [rate_limits EXCEPT ![u] = PruneAttempts(rate_limits[u], now)]
              /\ Len(rate_limits'[u]) <= Len(rate_limits[u])
              /\ UNCHANGED <<pending_verifications, verified, tasks, prompts, member,
                             held, grant_calls, invites>>
              /\ \/ attempt_log' = attempt_log
                 \/ /\ Len(attempt_log') = Len(attempt_log) + 1
                    /\ SubSeq(attempt_log', 1, Len(attempt_log)) = attempt_log
                    /\ attempt_log'[Len(attempt_log')].user_id = u
                    /\ ~attempt_log'[Len(attempt_log')].success]_vars

\* a start was rejected as rate limited after three starts were counted, and the
\* window holds these three attempts and no more
C22_Witness ==
    \E u \in Users :
        /\ CountLog(attempt_log, u, RateLimited) >= 1
        /\ Len(prompts[u]) = max_attempts_per_hour
        /\ Len(rate_limits[u]) = max_attempts_per_hour

\* the terminal records of user u: "success", "cancelled" and "timeout"
TerminalRecords(u) ==
    CountLog(attempt_log, u, SuccessfullyVerified)
    + CountLog(attempt_log, u, UserCancelled)
    + CountLog(attempt_log, u, VerificationTimeout)

\* C24: the one session a user ever had leaves at most one "success" record,
\* however often the accept is delivered, and once every handler has ended and
\* the session is no longer pending it has left exactly one terminal record.
C24_OneTerminalRecord ==
    \A u \in Users :
        Len(prompts[u]) = 1 =>
            /\ CountLog(attempt_log, u, SuccessfullyVerified) <= 1
            /\ (Quiescent /\ u \notin DOMAIN pending_verifications)
                  => TerminalRecords(u) = 1

\* the step resumes complete_verification of user u at a later suspension point
CompleteGoesOn(u) ==
    \E t2 \in BagToSet(tasks') :
        /\ t2.user = u
        /\ t2.pc \in {"c_roles", "c_notify"}
        /\ CopiesIn(t2, tasks') > CopiesIn(t2, tasks)

\* C25: when create_invite or an add_roles call raises inside
\* complete_verification, the Verification Record and the attempt log stay as
\* they are and the handler goes on to its next call or to its success message;
\* and when the handler reaches its success message the user is verified, has a
\* "success" record and has no pending session.
C25_PropagationContained ==
    [][/\ \A t \in TaskSet :
             /\ (t.pc = "c_invite" /\ InviteDone(t, "error")) =>
                   /\ UNCHANGED <<verified, attempt_log>>
                   /\ is_user_verified(verified', t.user)
                   /\ CompleteGoesOn(t.user)
             /\ (t.pc = "c_roles" /\ GrantDone(t, "error")) =>
                   /\ UNCHANGED <<verified, attempt_log>>
                   /\ is_user_verified(verified', t.user)
                   /\ CompleteGoesOn(t.user)
       /\ \A t \in BagToSet(tasks') :
             (t.pc = "c_notify" /\ CopiesIn(t, tasks') > CopiesIn(t, tasks)) =>
                 /\ is_user_verified(verified', t.user)
                 /\ CountLog(attempt_log', t.user, SuccessfullyVerified) >= 1
                 /\ t.user \notin DOMAIN pending_verifications']_vars

\* complete_verification has reached its success message after create_invite
\* and every add_roles call raised: no invitation, no role gained, every grant
\* of the user logged as failed
C25_Witness ==
    \E t \in TaskSet :
        /\ t.pc = "c_notify"
        /\ target_server_id \notin member[t.user]
        /\ invites[t.user] = <<>>
        /\ held[t.user] = InitialHeld[t.user]
        /\ \E e \in role_log : e.user_id = t.user
        /\ \A e \in role_log : e.user_id = t.user => ~e.ok
        /\ CountLog(attempt_log, t.user, ForceVerified) = 0
        /\ is_user_verified(verified, t.user)
        /\ t.user \notin DOMAIN pending_verifications

\* the suspension points of add_user_to_target_server
InvitePcs == {"c_invite", "f_invite"}

\* C26: a handler enters create_invite only for a user who is not a member of
\* the target guild; a step creates at most one invitation, and only by ending
\* one create_invite call; every invitation is for one use and expires.
C26_InviteOnlyNonMember ==
    /\ [][/\ \A t \in BagToSet(tasks') :
               (t.pc \in InvitePcs /\ CopiesIn(t, tasks') > CopiesIn(t, tasks)) =>
                   /\ target_server_id \notin member[t.user]
                   /\ is_user_verified(verified', t.user)
          /\ \A u \in Users :
               /\ Len(invites'[u]) <= Len(invites[u]) + 1
               /\ Len(invites'[u]) > Len(invites[u]) =>
                     \E t \in TaskSet :
                         /\ t.user = u /\ t.pc \in InvitePcs
                         /\ CopiesIn(t, tasks') = CopiesIn(t, tasks) - 1
                         /\ BagCardinality(tasks') <= BagCardinality(tasks)]_vars
    /\ [](\A u \in Users : \A i \in 1..Len(invites[u]) :
             /\ invites[u][i].max_uses = 1
             /\ invites[u][i].max_age > 0)

\* a user was invited once, joined the target guild, and was then verified
\* again by an administrator: the second admission created no invitation
C26_Witness ==
    \E u \in Users :
        /\ target_server_id \in member[u]
        /\ Len(invites[u]) = 1
        /\ CountLog(attempt_log, u, ForceVerified) >= 1
        /\ CountLog(attempt_log, u, SuccessfullyVerified) + CountLog(attempt_log, u, ForceVerified) = 2
        /\ Quiescent

\* C27: the attempt count stored in a session grows with each start of the
\* user: the first session stores at least 1 and each later one more than the
\* one before, so the session of the user's n-th start stores at least n; and a
\* start that replaces a session stores more than the session it replaces.
C27_AttemptCountGrows ==
    /\ [](\A u \in DOMAIN pending_verifications :
             \A n \in 1..Len(prompts[u]) :
                 prompts[u][n].created_at = pending_verifications[u].timestamp
                    => pending_verifications[u].attempts >= n)
    /\ [][\A u \in DOMAIN pending_verifications :
             (Len(prompts'[u]) > Len(prompts[u]) /\ u \in DOMAIN pending_verifications')
                => pending_verifications'[u].attempts
                      > pending_verifications[u].attempts]_vars

\* the session timeout the settings of guild g ask for, in seconds: the
\* configured minutes, and the default when none is configured
ConfiguredTimeout(g) ==
    IF get_server_settings(g).verification_timeout_minutes = 0
    THEN verification_timeout
    ELSE 60 * get_server_settings(g).verification_timeout_minutes

\* C28: the one session a user ever had is expired (a "timeout" record is
\* written for it) only at an age beyond the timeout that the settings of the
\* guild it was started in ask for.
C28_TimeoutFromOriginGroup ==
    [][\A u \in DOMAIN pending_verifications :
          (/\ Len(prompts[u]) = 1
           /\ u \notin DOMAIN pending_verifications'
           /\ CountLog(attempt_log', u, VerificationTimeout)
                 > CountLog(attempt_log, u, VerificationTimeout))
          => now - pending_verifications[u].timestamp
                > ConfiguredTimeout(pending_verifications[u].guild_id)]_vars

\* C29: no user is verified while holding a pending session, and a step that
\* makes a user verified leaves the user without one.
C29_VerifiedExcludesPending ==
    /\ [](\A u \in Users :
             ~(is_user_verified(verified, u) /\ u \in DOMAIN pending_verifications))
    /\ [][\A u \in Users :
             (~is_user_verified(verified, u) /\ is_user_verified(verified', u))
                => u \notin DOMAIN pending_verifications']_vars

\* C30: an accept of a pending session within the timeout whose record write
\* raises leaves the session, the Verification Records, the attempt log, the
\* suspended handlers, the grants and the invitations as they are; and an
\* accept of a pending session within the timeout whose record write returns
\* makes the user verified and appends the "success" record, whatever accepts
\* came before.
C30_FailedWriteAbandons ==
    [][\A u \in DOMAIN pending_verifications :
          /\ (TimelyAccept(u) /\ on_reaction_add(u, "accept", TRUE, FALSE)) =>
                /\ UNCHANGED <<pending_verifications, verified, attempt_log, tasks,
                               grant_calls, held, invites, rate_limits>>
                /\ CountLog(attempt_log', u, SuccessfullyVerified)
                      = CountLog(attempt_log, u, SuccessfullyVerified)
          /\ (TimelyAccept(u) /\ on_reaction_add(u, "accept", TRUE, TRUE)) =>
                /\ is_user_verified(verified', u)
                /\ attempt_log' = Append(attempt_log,
                      [user_id |-> u, success |-> TRUE, reason |-> SuccessfullyVerified])]_vars

\* the user has started once and accepted once, and the accept's record write
\* raised: the session is pending, the user is not verified, nothing is logged
\* and no propagation runs
C30_Witness ==
    \E u \in Users :
        /\ events = 2
        /\ Len(prompts[u]) = 1
        /\ TimelyAccept(u)
        /\ ~is_user_verified(verified, u)
        /\ attempt_log = <<>>
        /\ \A t \in TaskSet : t.pc \in {"v_dm", "v_timer"}

\* the accept of user u is a reaction to the user's i-th prompt, delivered by
\* direct message: the message carries the prompt's embed, whichever session
\* it was issued for
AcceptOnPrompt(u, i, db_ok) ==
    /\ i \in 1..Len(prompts[u])
    /\ prompts[u][i].via = "dm"
    /\ on_reaction_add(u, "accept", TRUE, db_ok)

\* the user's i-th prompt was issued for a session that is no longer the
\* user's pending one, and a session was cancelled or expired
EarlierPrompt(u, i) ==
    /\ i \in 1..Len(prompts[u])
    /\ \/ u \notin DOMAIN pending_verifications
       \/ prompts[u][i].created_at # pending_verifications[u].timestamp
    /\ CountLog(attempt_log, u, UserCancelled)
          + CountLog(attempt_log, u, VerificationTimeout) >= 1

\* C31: an accept on the prompt of an earlier session of a user, cancelled or
\* expired, does not make the user verified and does not remove the user's
\* pending session.
C31_StaleAcceptIgnored ==
    [][\A u \in Users : \A i \in 1..Len(prompts[u]) :
          (/\ EarlierPrompt(u, i)
           /\ ~is_user_verified(verified, u)
           /\ AcceptOnPrompt(u, i, TRUE))
          => /\ ~is_user_verified(verified', u)
             /\ pending_verifications' = pending_verifications]_vars

\* C32: when the delivery of the prompt of the one start a user ever made ends
\* with an error other than a refusal, either the user has the session, an
\* attempt counted for it in the rate-limit window and an expiry timer, or the
\* user has none of the three.
C32_FailedDeliveryAllOrNothing ==
    [][\A t \in TaskSet :
          (t.pc = "v_dm" /\ Len(prompts[t.user]) = 1 /\ DmDelivery(t, "error")) =>
              LET u == t.user
                  session == u \in DOMAIN pending_verifications'
                  stamped == \E i \in 1..Len(rate_limits'[u]) :
                                 rate_limits'[u][i] >= prompts[u][t.pos].created_at
                  timer == \E t2 \in BagToSet(tasks') :
                               t2.user = u /\ t2.pc = "v_timer"
              IN \/ session /\ stamped /\ timer
                 \/ ~session /\ ~stamped /\ ~timer]_vars

-----------------------------------------------------------------------------
(* The bot's command dispatch: Bot.process_commands (main.py) *)

\* the state of the verification cog, which the dispatch and the game cog leave alone
cogvars == <<last_cmd, pending_verifications, rate_limits, verified, attempt_log,
             member, held, prompts, grant_calls, role_log, invites>>

\* Without the test of lines 88-89: every dispatch runs the library's handler
process_commands_unguarded(m, suspends, raises) ==
    /\ handled' = [handled EXCEPT ![m] = @ + 1]
    /\ IF suspends
       THEN /\ processing_commands' = processing_commands \cup {m}
            /\ tasks' = Spawn(tasks, Task("p_super", 0, now, m))
            /\ UNCHANGED propagated
       ELSE /\ processing_commands' = (processing_commands \cup {m}) \ {m}
            /\ propagated' = IF raises THEN propagated + 1 ELSE propagated
            /\ UNCHANGED tasks
    /\ UNCHANGED <<now, cogvars, calls, acquired, local_cache, ttl_given, stats,
                   api_failures>>

\* process_commands(message), from its call to its first suspension (lines
\* 87-94): a message id already in the set returns at once; otherwise the id is
\* added and the library's process_commands runs, which either suspends in a
\* command (the task p_super) or ends at once, returning or raising, and then
\* the finally clause discards the id in the same step
process_commands(m, suspends, raises) ==
    IF m \in processing_commands
    THEN UNCHANGED <<now, cogvars, tasks, gvars>>
    ELSE /\ handled' = [handled EXCEPT ![m] = @ + 1]
         /\ IF suspends
            THEN /\ processing_commands' = processing_commands \cup {m}
                 /\ tasks' = Spawn(tasks, Task("p_super", 0, now, m))
                 /\ UNCHANGED propagated
            ELSE /\ processing_commands' = (processing_commands \cup {m}) \ {m}
                 /\ propagated' = IF raises THEN propagated + 1 ELSE propagated
                 /\ UNCHANGED tasks
         /\ UNCHANGED <<now, cogvars, calls, acquired, local_cache, ttl_given, stats,
                        api_failures>>

\* The library's process_commands ends, returning or raising: the finally
\* clause discards the id (line 94), and an exception goes on to the caller
CommandDone(t, raises) ==
    /\ t.pc = "p_super"
    /\ processing_commands' = processing_commands \ {t.pos}
    /\ propagated' = IF raises THEN propagated + 1 ELSE propagated
    /\ tasks' = Finish(tasks, t)
    /\ UNCHANGED <<now, cogvars, handled, calls, acquired, local_cache, ttl_given,
                   stats, api_failures>>

\* Messages dispatched to the bot, any of them more than once, and the
\* handlers ending
NextCommands ==
    \/ \E m \in Messages, suspends \in BOOLEAN, raises \in BOOLEAN :
          /\ events < CommandsMaxEvents
          /\ process_commands(m, suspends, raises)
          /\ events' = events + 1
    \/ \E t \in TaskSet, raises \in BOOLEAN : CommandDone(t, raises) /\ UNCHANGED events

SpecCommands == Init /\ [][NextCommands]_vars

\* the handlers of a message id that are in flight
HandlerCount(m) ==
    LET hs == {t \in TaskSet : t.pc = "p_super" /\ t.pos = m}
    IN BagCardinality([t \in hs |-> tasks[t]])

\* C33: at most one handler of a message id is in flight at a time, and
\* processing_commands holds exactly the ids that have a handler in flight, so
\* it is empty whenever no command is being processed.
C33_OneHandlerPerMessage ==
    /\ \A m \in Messages : HandlerCount(m) <= 1
    /\ processing_commands = {m \in Messages : HandlerCount(m) > 0}

\* a second dispatch of message 1 arrived while its handler was in flight and
\* returned without processing
C33_Witness ==
    /\ events = 2
    /\ handled[1] = 1 /\ handled[2] = 0
    /\ HandlerCount(1) = 1
    /\ propagated = 0

-----------------------------------------------------------------------------
(* The game cog's RateLimiter (cogs/game.py): the limiter of one API client, *)
(* whose search methods call acquire() before each request                  *)

\* the entries of self.calls younger than one minute at the instant t (lines 88-89)
RecentCalls(cs, t) == SelectSeq(cs, LAMBDA c : t - c < LimiterWindow)

\* acquire(), from its call to its first suspension (lines 85-96): the list is
\* pruned; when it is full the caller sleeps until its oldest entry is a minute
\* old (the task a_sleep, which keeps the instant read at line 87); otherwise
\* that instant is appended and the call returns
acquire ==
    LET kept == RecentCalls(calls, now)
        sleep_time == LimiterWindow - (now - kept[1])
    IN /\ IF Len(kept) >= calls_per_minute /\ sleep_time > 0
          THEN /\ calls' = kept
               /\ tasks' = Spawn(tasks, Task("a_sleep", 0, now + sleep_time, now))
               /\ UNCHANGED acquired
          ELSE /\ calls' = Append(kept, now)
               /\ acquired' = Append(acquired, now)
               /\ UNCHANGED tasks
       /\ UNCHANGED <<now, cogvars, processing_commands, handled, propagated,
                      local_cache, ttl_given, stats, api_failures>>

\* The sleep of line 94 ends: the instant read before the sleep is appended
\* (line 96) and the call returns
AcquireWake(t) ==
    /\ t.pc = "a_sleep"
    /\ now >= t.wake
    /\ calls' = Append(calls, t.pos)
    /\ acquired' = Append(acquired, now)
    /\ tasks' = Finish(tasks, t)
    /\ UNCHANGED <<now, cogvars, processing_commands, handled, propagated,
                   local_cache, ttl_given, stats, api_failures>>

\* Callers of one client's acquire(), any number of them at the same instant;
\* time advances only when no sleeper is due
NextLimiter ==
    \/ \E d \in LimiterTickSteps :
          /\ now + d <= LimiterMaxTime
          /\ NoneReady
          /\ Tick(d) /\ UNCHANGED <<events, gvars>>
    \/ events < LimiterMaxEvents /\ acquire /\ events' = events + 1
    \/ \E t \in TaskSet : AcquireWake(t) /\ UNCHANGED events

SpecLimiter == Init /\ [][NextLimiter]_vars

\* the acquire() calls that returned in the minute ending with the i-th return
ReturnedInWindow(i) ==
    {j \in 1..Len(acquired) :
        acquired[j] > acquired[i] - LimiterWindow /\ acquired[j] <= acquired[i]}

\* C34: in any 60-second interval at most calls_per_minute acquire() calls
\* return, whatever the interleaving of the callers.
C34_RateBounded ==
    \A i \in 1..Len(acquired) : Cardinality(ReturnedInWindow(i)) <= calls_per_minute

-----------------------------------------------------------------------------
(* The game cog's cache and search (cogs/game.py), without Redis *)

\* the clients of self.apis when no Reddit credentials are set (lines 367-385)
Apis == <<"ITCH_IO", "VNDB">>

\* Platform(value) of the enum (lines 24-32)
PlatformValue(p) == IF p = "ITCH_IO" THEN "Itch.io" ELSE "VNDB"

\* the games a client may return: rating 0 stands for no rating (`rating or 0`),
\* tag_hits for the number of tags that contain the query, title_hit for
\* whether the title contains it
GamesOf(p) ==
    {[platform |-> p, rating |-> r, tag_hits |-> 0, title_hit |-> h] :
        r \in {0, 1}, h \in BOOLEAN}

\* what a client's search returns for a limit of one: nothing, or one game
ApiResults(p) == {<<>>} \cup {<<g>> : g \in GamesOf(p)}

\* Game.to_dict (lines 51-67): the platform is stored by its value
to_dict(g) ==
    [platform |-> PlatformValue(g.platform), rating |-> g.rating,
     tag_hits |-> g.tag_hits, title_hit |-> g.title_hit]

\* CacheManager.get (lines 117-134): what it returns; hit is FALSE for None
cache_get(cache, key, t) ==
    IF key \in DOMAIN cache /\ t - cache[key].timestamp < cache_ttl
    THEN [hit |-> TRUE, data |-> cache[key].data]
    ELSE [hit |-> FALSE, data |-> <<>>]

\* CacheManager.get: the cache it leaves (an entry found too old is deleted, line 131)
cache_after_get(cache, key, t) ==
    IF key \in DOMAIN cache /\ ~(t - cache[key].timestamp < cache_ttl)
    THEN [k \in DOMAIN cache \ {key} |-> cache[k]]
    ELSE cache

\* CacheManager.set (lines 136-146): ttl goes to Redis only (line 141); the
\* local entry is the value and the instant of the call (line 144)
cache_set(cache, key, value, ttl, t) ==
    [k \in DOMAIN cache \cup {key} |->
        IF k = key THEN [data |-> value, timestamp |-> t] ELSE cache[k]]

\* the sort key of lines 432-436, and its order
KeyOf(g) == <<g.rating, g.tag_hits, IF g.title_hit THEN 1 ELSE 0>>
KeyLess(a, b) ==
    \/ a[1] < b[1]
    \/ a[1] = b[1] /\ a[2] < b[2]
    \/ a[1] = b[1] /\ a[2] = b[2] /\ a[3] < b[3]

\* list.sort(key, reverse=True): descending, games of equal key in their order
RECURSIVE InsertGame(_, _)
InsertGame(g, sorted) ==
    IF sorted = <<>> THEN <<g>>
    ELSE IF KeyLess(KeyOf(Head(sorted)), KeyOf(g)) THEN <<g>> \o sorted
    ELSE <<Head(sorted)>> \o InsertGame(g, Tail(sorted))

RECURSIVE SortInto(_, _)
SortInto(games, sorted) ==
    IF games = <<>> THEN sorted
    ELSE SortInto(Tail(games), InsertGame(Head(games), sorted))

SortGames(games) == SortInto(games, <<>>)

\* all_games[:limit] (line 438)
FirstGames(games, limit) ==
    SubSeq(games, 1, IF Len(games) < limit THEN Len(games) ELSE limit)

\* the local state of a search that is waiting for a client
SearchState(q, i, all_games) == [query |-> q, api |-> i, all_games |-> all_games]

\* _search_with_fallback, from its call to its first suspension (lines
\* 406-422): a cached list that is not empty is returned and counted as a
\* cache hit; otherwise the first client is queried (the task s_api)
search_start(q) ==
    LET cached_results == cache_get(local_cache, q, now)
    IN /\ local_cache' = cache_after_get(local_cache, q, now)
       /\ IF cached_results.hit /\ cached_results.data # <<>>
          THEN /\ stats' = [stats EXCEPT !.cache_hits = @ + 1]
               /\ UNCHANGED tasks
          ELSE /\ tasks' = Spawn(tasks, Task("s_api", 0, now, SearchState(q, 1, <<>>)))
               /\ UNCHANGED stats
       /\ UNCHANGED <<now, cogvars, processing_commands, handled, propagated, calls,
                      acquired, ttl_given, api_failures>>

\* A client's search returns (lines 422-424). Each client catches every
\* exception of its request itself, logs it and returns the games it has (lines
\* 224-227, 284-287, 330-333), so the call of line 422 does not raise and the
\* handler of lines 425-429 is not entered; failed tells whether the request
\* ended in an exception. After the last client the games are sorted and cut
\* to the limit, a list that is not empty is stored, and the search is counted
\* (lines 432-451).
api_returns(t, games, failed) ==
    LET st == t.pos
        all_games == st.all_games \o games
        result_games == FirstGames(SortGames(all_games), SearchLimit)
    IN /\ t.pc = "s_api"
       /\ api_failures' = IF failed THEN api_failures + 1 ELSE api_failures
       /\ IF st.api < Len(Apis)
          THEN /\ tasks' = Spawn(Finish(tasks, t),
                                 Task("s_api", 0, now,
                                      SearchState(st.query, st.api + 1, all_games)))
               /\ UNCHANGED <<local_cache, ttl_given, stats>>
          ELSE /\ tasks' = Finish(tasks, t)
               /\ IF result_games # <<>>
                  THEN /\ local_cache' =
                             cache_set(local_cache, st.query,
                                       [k \in 1..Len(result_games) |->
                                           to_dict(result_games[k])],
                                       SearchTtl, now)
                       /\ ttl_given' =
                             [k \in DOMAIN ttl_given \cup {st.query} |->
                                 IF k = st.query THEN SearchTtl ELSE ttl_given[k]]
                  ELSE UNCHANGED <<local_cache, ttl_given>>
               /\ stats' = [stats EXCEPT !.searches = @ + 1,
                                         !.games_found = @ + Len(result_games)]
       /\ UNCHANGED <<now, cogvars, processing_commands, handled, propagated, calls,
                      acquired>>

\* Searches of a few queries, any number of them in flight, on a clock of half
\* hours that advances when no request is in flight
NextSearch ==
    \/ /\ now + SearchTtl <= SearchMaxTime
       /\ NoneReady
       /\ Tick(SearchTtl) /\ UNCHANGED <<events, gvars>>
    \/ \E q \in Queries :
          events < SearchMaxEvents /\ search_start(q) /\ events' = events + 1
    \/ \E t \in TaskSet, failed \in BOOLEAN :
          \E games \in ApiResults(Apis[t.pos.api]) :
              api_returns(t, games, failed) /\ UNCHANGED events

SpecSearch == Init /\ [][NextSearch]_vars

\* C35: an entry stored by set(key, value, ttl) is returned by get(key) only
\* while fewer than ttl seconds have passed since the set; once ttl seconds
\* have passed, get returns None and removes the entry.
C35_EntryLivesForItsTtl ==
    [][\A q \in Queries :
          (/\ q \in DOMAIN local_cache
           /\ now - local_cache[q].timestamp >= ttl_given[q]
           /\ search_start(q))
          => /\ ~cache_get(local_cache, q, now).hit
             /\ stats'.cache_hits = stats.cache_hits
             /\ q \notin DOMAIN local_cache']_vars

\* C36: a client that fails does not keep the remaining clients from being
\* queried, api_errors counts one for every client that failed, no empty list
\* is written to the cache, and a cache hit neither queries a client nor
\* counts as a search.
C36_FailuresIsolated ==
    /\ [](stats.api_errors = api_failures)
    /\ [](\A k \in DOMAIN local_cache : local_cache[k].data # <<>>)
    /\ [][\A t \in TaskSet : \A games \in ApiResults(Apis[t.pos.api]) :
             (t.pos.api < Len(Apis) /\ api_returns(t, games, TRUE)) =>
                 \E t2 \in BagToSet(tasks') :
                     /\ t2.pc = "s_api"
                     /\ t2.pos = SearchState(t.pos.query, t.pos.api + 1,
                                             t.pos.all_games \o games)]_vars
    /\ [][\A q \in Queries :
             (search_start(q) /\ stats'.cache_hits = stats.cache_hits + 1) =>
                 /\ tasks' = tasks
                 /\ stats'.searches = stats.searches]_vars

====
